---- MODULE Spec2Model ----
\* A model of update_remotes.py: discovery of git repositories under a target,
\* the inventory listing, the confirmation prompt and the per-repository
\* migration (existence check, gh repo create, git remote set-url, git push).
EXTENDS Integers, Sequences, FiniteSets, TLC

VARIABLES
    argv,          \* the command-line arguments after the program name
    fs,            \* the filesystem: entry path -> "none" | "file" | "dir"
    origin,        \* per directory, the configured URL of remote "origin"
    hosted,        \* the names of the repositories the hosting provider holds
    pc,            \* where main() is: "start", "list", "prompt", "loop", "exit"
    repositories,  \* main's list of discovered repository paths
    idx,           \* index of the next element of the for loop of main
    response,      \* the answer typed at the confirmation prompt
    exitCode,      \* the exit status of the process, NoExit while it runs
    calls,         \* the external commands this run has issued, in order
    state,         \* per discovered repository, how its processing ended
    run,           \* the number of the current invocation of the tool
    origin0,       \* origin as it was when the current run started
    hosted0,       \* hosted as it was when the current run started
    prevCreated,   \* the paths whose creation call succeeded in the previous run
    prevCompleted  \* whether the previous run was confirmed and ran to its end

vars == <<argv, fs, origin, hosted, pc, repositories, idx, response, exitCode,
          calls, state, run, origin0, hosted0, prevCreated, prevCompleted>>

\* ------------------------------------------------------------------ bounds

\* How many times the tool is invoked in a row on the same target.
MaxRuns == 2

\* ------------------------------------------------------- paths (pathlib)

GIT == ".git"
Root == <<>>

\* The directories a filesystem of the model may hold: /A, /B and /B/A.
Universe == {<<"A">>, <<"B">>, <<"B", "A">>}

\* Every entry of the filesystem: the directories and their .git entries.
Entries == Universe \cup {Append(p, GIT) : p \in Universe}

\* Path.parent
Parent(p) == IF p = Root THEN Root ELSE SubSeq(p, 1, Len(p) - 1)

\* Path.name: the final path segment, "" for the root
Name(p) == IF p = Root THEN "" ELSE p[Len(p)]

\* Path(arg): a command-line string is its segments and whether it ends with
\* a separator; pathlib drops the trailing separator.
PathOf(arg) == arg.segs

\* str(path): only the root's string ends with a separator.
StrOf(p) == [segs |-> p, slash |-> (p = Root)]

\* str.endswith('/')
EndsWithSlash(s) == s.slash

Kind(f, p) == IF p = Root THEN "dir" ELSE IF p \in DOMAIN f THEN f[p] ELSE "none"

\* Path.exists
Exists(f, p) == Kind(f, p) # "none"

\* Path.is_dir
IsDir(f, p) == Kind(f, p) = "dir"

\* is_git_repo(path): (path / '.git').exists()
is_git_repo(f, p) == Exists(f, Append(p, GIT))

\* ------------------------------------------------- find_repositories

\* The order in which a directory lists its entries.
ListOrder == <<GIT, "A", "B">>

\* The dirs list os.walk builds for a directory: its subdirectories.
SubDirs(f, top) == SelectSeq(ListOrder, LAMBDA n : IsDir(f, Append(top, n)))

\* dirs[:] = [d for d in dirs if d != '.git']
PruneDirs(dirs) == SelectSeq(dirs, LAMBDA d : d # GIT)

RECURSIVE Walk(_, _)
RECURSIVE WalkDirs(_, _, _)

\* The repositories the loop body of find_repositories appends while os.walk
\* visits top and what lies under it, top-down.
Walk(f, top) ==
    IF ~IsDir(f, top) THEN <<>>
    ELSE LET dirs  == SubDirs(f, top)
             inGit == \E i \in 1..Len(dirs) : dirs[i] = GIT
             found == IF inGit /\ is_git_repo(f, top) THEN <<top>> ELSE <<>>
             below == IF inGit THEN PruneDirs(dirs) ELSE dirs
         IN  found \o WalkDirs(f, top, below)

WalkDirs(f, top, dirs) ==
    IF dirs = <<>> THEN <<>>
    ELSE Walk(f, Append(top, Head(dirs))) \o WalkDirs(f, top, Tail(dirs))

\* find_repositories running both branches: the walk, then the single path.
find_repositories_BothBranches(f, target) ==
    Walk(f, target) \o (IF Exists(f, target) /\ is_git_repo(f, target)
                        THEN <<target>> ELSE <<>>)

\* find_repositories(target), target being the Path main passes.
find_repositories(f, target) ==
    LET target_path == target
    IN  IF EndsWithSlash(StrOf(target)) \/ (Exists(f, target_path) /\ IsDir(f, target_path))
        THEN LET search_dir == IF Exists(f, target_path) THEN target_path
                               ELSE Parent(target_path)
             IN  Walk(f, search_dir)
        ELSE IF Exists(f, target_path) /\ is_git_repo(f, target_path)
             THEN <<target_path>>
             ELSE <<>>

\* ------------------------------------------------------------- strings

\* The characters of the answers the model types at the prompt.
LowerChar(c) ==
    CASE c = "Y" -> "y"
      [] c = "E" -> "e"
      [] c = "S" -> "s"
      [] c = "N" -> "n"
      [] c = "O" -> "o"
      [] OTHER   -> c

\* str.lower()
Lower(s) == [i \in 1..Len(s) |-> LowerChar(s[i])]

Whitespace == {" ", "\n"}

RECURSIVE LStrip(_)
LStrip(s) == IF s # <<>> /\ Head(s) \in Whitespace THEN LStrip(Tail(s)) ELSE s

RECURSIVE RStrip(_)
RStrip(s) ==
    IF s # <<>> /\ s[Len(s)] \in Whitespace THEN RStrip(SubSeq(s, 1, Len(s) - 1)) ELSE s

\* str.strip()
Strip(s) == RStrip(LStrip(s))

\* Python's None and a str value, as one kind of value.
None == [none |-> TRUE, str |-> <<>>]
Str(s) == [none |-> FALSE, str |-> s]

\* The truth value Python gives a value that is None or a str.
Truthy(v) == ~v.none /\ v.str # <<>>

\* ------------------------------------------------- names, URLs, commands

\* The name without the prefix.
PrefixedName_NoPrefix(name) == <<name>>

\* f"migration25-{name}"
PrefixedName(name) == <<"migration25-", name>>

\* The URL the hosting provider gives the repository of a name.
HostedUrl(prefixed_name) == <<"https://github.com/u/">> \o prefixed_name

\* The URL a repository's origin has before any migration.
OldUrl(p) == <<"git@old:foo/", Name(p), ".git">>

\* The configuration of remote "origin" in a directory.
Unset == [set |-> FALSE, url |-> <<>>]
Blank == [set |-> TRUE, url |-> <<" ">>]
Configured(url) == [set |-> TRUE, url |-> url]

\* One external command: what ran, for which repository, its operand and
\* how it ended ("ok", "fail", or "printed" when the outcome is only printed).
Call(op, repo, arg, out) == [op |-> op, repo |-> repo, arg |-> arg, out |-> out]

Outcome(ok) == IF ok THEN "ok" ELSE "fail"

\* ------------------------------------------------------ the subprocesses

\* get_current_remote(path): stdout stripped, None when the command fails.
get_current_remote(ok, stdout) == IF ok THEN Str(Strip(stdout)) ELSE None

\* repo_exists returning False whatever the command did.
repo_exists_Never(viewOk) == FALSE

\* repo_exists with the two results exchanged.
repo_exists_Inverted(viewOk) == ~viewOk

\* repo_exists(name): True when gh repo view succeeds, False when it fails.
repo_exists(viewOk) == viewOk

\* create_github_repo returning the name it was asked to create.
create_github_repo_ReturnsName(ok, stdout) ==
    IF ok THEN Str(SubSeq(Strip(stdout), 2, Len(Strip(stdout)))) ELSE None

\* create_github_repo(name): the stripped stdout of gh repo create, None
\* when the command fails.
create_github_repo(ok, stdout) == IF ok THEN Str(Strip(stdout)) ELSE None

\* update_remote with the push outside the try block's guard: it is issued
\* whether set-url succeeded or not.
update_remote_PushAnyway(path, new_remote_url, setOk, pushOk) ==
    LET seturl == Call("set-url", path, new_remote_url, Outcome(setOk))
        push   == Call("push", path, new_remote_url, Outcome(pushOk))
    IN  [calls |-> <<seturl, push>>,
         origin |-> IF setOk THEN Configured(new_remote_url) ELSE origin[path],
         result |-> setOk /\ pushOk,
         state |-> IF setOk /\ pushOk THEN "DONE" ELSE "FAILED"]

\* update_remote restoring the previous URL when the push fails.
update_remote_Rollback(path, new_remote_url, setOk, pushOk) ==
    LET seturl == Call("set-url", path, new_remote_url, Outcome(setOk))
        push   == Call("push", path, new_remote_url, Outcome(pushOk))
    IN  IF ~setOk
        THEN [calls |-> <<seturl>>, origin |-> origin[path],
              result |-> FALSE, state |-> "FAILED"]
        ELSE IF ~pushOk
        THEN [calls |-> <<seturl, push>>, origin |-> origin[path],
              result |-> FALSE, state |-> "FAILED"]
        ELSE [calls |-> <<seturl, push>>, origin |-> Configured(new_remote_url),
              result |-> TRUE, state |-> "DONE"]

\* update_remote reporting success although the push failed.
update_remote_IgnorePushFailure(path, new_remote_url, setOk, pushOk) ==
    LET seturl == Call("set-url", path, new_remote_url, Outcome(setOk))
        push   == Call("push", path, new_remote_url, Outcome(pushOk))
    IN  IF ~setOk
        THEN [calls |-> <<seturl>>, origin |-> origin[path],
              result |-> FALSE, state |-> "FAILED"]
        ELSE [calls |-> <<seturl, push>>, origin |-> Configured(new_remote_url),
              result |-> TRUE, state |-> "DONE"]

\* update_remote(path, new_remote_url): set-url, then push; a failed command
\* raises and the rest of the try block is skipped.
update_remote(path, new_remote_url, setOk, pushOk) ==
    LET seturl == Call("set-url", path, new_remote_url, Outcome(setOk))
        push   == Call("push", path, new_remote_url, Outcome(pushOk))
    IN  IF ~setOk
        THEN [calls |-> <<seturl>>, origin |-> origin[path],
              result |-> FALSE, state |-> "FAILED"]
        ELSE IF ~pushOk
        THEN [calls |-> <<seturl, push>>, origin |-> Configured(new_remote_url),
              result |-> FALSE, state |-> "FAILED"]
        ELSE [calls |-> <<seturl, push>>, origin |-> Configured(new_remote_url),
              result |-> TRUE, state |-> "DONE"]

\* if current_remote is not None:
HasRemote_NotNone(current_remote) == ~current_remote.none

\* if current_remote:
HasRemote(current_remote) == Truthy(current_remote)

\* The result of the creation is not looked at.
CreationSucceeded_Always(new_repo_url) == TRUE

\* if new_repo_url:
CreationSucceeded(new_repo_url) == Truthy(new_repo_url)

\* The outcomes the external commands of one process_repository call may
\* have: each command succeeds or fails; gh repo create prints the URL of
\* the new repository, or nothing.
Outcomes == [get : BOOLEAN, view : BOOLEAN, create : {"fail", "url", "empty"},
             set : BOOLEAN, push : BOOLEAN]

\* What the environment allows: get-url fails when origin is unset, gh repo
\* view fails when the name is not hosted, gh repo create fails when it is.
Possible(directory, o) ==
    LET new_name == PrefixedName(Name(directory))
    IN  /\ o.get => origin[directory].set
        /\ o.view => new_name \in hosted
        /\ o.create # "fail" => new_name \notin hosted

\* process_repository(directory) under the outcomes o.
process_repository(directory, o) ==
    LET new_name == PrefixedName(Name(directory))
        unchanged == [origin |-> origin[directory], hosted |-> hosted]
        getcall == Call("get-url", directory, <<"origin">>, Outcome(o.get))
        current_remote ==
            get_current_remote(o.get, origin[directory].url \o <<"\n">>)
        viewcall == Call("view", directory, new_name, Outcome(o.view))
        createcall == Call("create", directory, new_name, Outcome(o.create # "fail"))
        new_repo_url ==
            create_github_repo(o.create # "fail",
                IF o.create = "url" THEN HostedUrl(new_name) \o <<"\n">> ELSE <<>>)
        nowHosted == IF o.create # "fail" THEN hosted \cup {new_name} ELSE hosted
        upd == update_remote(directory, new_repo_url.str, o.set, o.push)
    IN  IF ~is_git_repo(fs, directory)
        THEN unchanged @@ [calls |-> <<>>, result |-> FALSE, state |-> "NOT_A_REPO"]
        ELSE IF ~HasRemote(current_remote)
        THEN unchanged @@ [calls |-> <<getcall>>, result |-> FALSE, state |-> "SKIPPED"]
        ELSE IF repo_exists(o.view)
        THEN unchanged @@ [calls |-> <<getcall, viewcall>>, result |-> TRUE,
                           state |-> "SKIPPED"]
        ELSE IF ~CreationSucceeded(new_repo_url)
        THEN [origin |-> origin[directory], hosted |-> nowHosted,
              calls |-> <<getcall, viewcall, createcall>>, result |-> FALSE,
              state |-> "ABORTED"]
        ELSE [origin |-> upd.origin, hosted |-> nowHosted,
              calls |-> <<getcall, viewcall, createcall>> \o upd.calls,
              result |-> upd.result, state |-> upd.state]

\* list_repositories(repos): the queries it issues; their outcomes are only
\* printed.
RECURSIVE list_repositories(_)
list_repositories(repos) ==
    IF repos = <<>> THEN <<>>
    ELSE LET repo == Head(repos)
             queries ==
                 IF is_git_repo(fs, repo)
                 THEN <<Call("get-url", repo, <<"origin">>, "printed"),
                        Call("view", repo, PrefixedName(Name(repo)), "printed")>>
                 ELSE <<>>
         IN  queries \o list_repositories(Tail(repos))

\* ------------------------------------------------------------------ main

NoExit == 0 - 1

\* An empty discovery reported with status 0.
ExitStatus_EmptyIsSuccess(reason) ==
    CASE reason = "usage"     -> 1
      [] reason = "empty"     -> 0
      [] reason = "cancelled" -> 0
      [] reason = "completed" -> 0

\* sys.exit(1) for a usage error or an empty discovery, sys.exit(0) when the
\* migration is cancelled, and status 0 when main returns.
ExitStatus(reason) ==
    CASE reason = "usage"     -> 1
      [] reason = "empty"     -> 1
      [] reason = "cancelled" -> 0
      [] reason = "completed" -> 0

\* The answer is not looked at.
Declined_Never(answer) == FALSE

\* if response.lower() == 'no':
Declined_OnlyNo(answer) == Lower(answer) = <<"n", "o">>

\* if response.lower() != 'yes':
Declined(answer) == Lower(answer) # <<"y", "e", "s">>

\* The loop left at the first repository whose processing returns False.
NextDirectory_StopOnFailure(i, result) ==
    IF result THEN i + 1 ELSE Len(repositories) + 1

\* for directory in repositories: the result of process_repository is
\* dropped and the loop goes on to the next element.
NextDirectory(i, result) == i + 1

NotAsked == <<"?">>

\* The answers typed at the prompt.
Responses == {<<"y", "e", "s">>, <<"Y", "E", "S">>, <<"n", "o">>, <<"y">>, <<>>}

\* main() up to the listing: the argument check and the discovery.
Discover ==
    /\ pc = "start"
    /\ IF Len(argv) + 1 # 2
       THEN /\ pc' = "exit"
            /\ exitCode' = ExitStatus("usage")
            /\ UNCHANGED repositories
       ELSE LET target == PathOf(argv[1])
                found  == find_repositories(fs, target)
            IN  /\ repositories' = found
                /\ IF found = <<>>
                   THEN pc' = "exit" /\ exitCode' = ExitStatus("empty")
                   ELSE pc' = "list" /\ UNCHANGED exitCode
    /\ state' = [p \in {repositories'[i] : i \in 1..Len(repositories')} |-> "DISCOVERED"]
    /\ UNCHANGED <<argv, fs, origin, hosted, idx, response, calls, run,
                   origin0, hosted0, prevCreated, prevCompleted>>

\* list_repositories(repositories)
List ==
    /\ pc = "list"
    /\ calls' = calls \o list_repositories(repositories)
    /\ pc' = "prompt"
    /\ UNCHANGED <<argv, fs, origin, hosted, repositories, idx, response, exitCode,
                   state, run, origin0, hosted0, prevCreated, prevCompleted>>

\* The confirmation prompt.
Confirm ==
    /\ pc = "prompt"
    /\ \E answer \in Responses :
          /\ response' = answer
          /\ IF Declined(answer)
             THEN pc' = "exit" /\ exitCode' = ExitStatus("cancelled") /\ UNCHANGED idx
             ELSE pc' = "loop" /\ idx' = 1 /\ UNCHANGED exitCode
    /\ UNCHANGED <<argv, fs, origin, hosted, repositories, calls, state, run,
                   origin0, hosted0, prevCreated, prevCompleted>>

\* One iteration of the for loop of main: process_repository(directory).
Process ==
    /\ pc = "loop"
    /\ idx <= Len(repositories)
    /\ LET directory == repositories[idx]
       IN  \E o \in Outcomes :
              /\ Possible(directory, o)
              /\ LET r == process_repository(directory, o)
                 IN  /\ origin' = [origin EXCEPT ![directory] = r.origin]
                     /\ hosted' = r.hosted
                     /\ calls' = calls \o r.calls
                     /\ state' = [state EXCEPT ![directory] = r.state]
                     /\ idx' = NextDirectory(idx, r.result)
    /\ UNCHANGED <<argv, fs, pc, repositories, response, exitCode, run,
                   origin0, hosted0, prevCreated, prevCompleted>>

\* The for loop is over and main returns.
Finish ==
    /\ pc = "loop"
    /\ idx > Len(repositories)
    /\ pc' = "exit"
    /\ exitCode' = ExitStatus("completed")
    /\ UNCHANGED <<argv, fs, origin, hosted, repositories, idx, response, calls,
                   state, run, origin0, hosted0, prevCreated, prevCompleted>>

\* The repositories for which this run's gh repo create succeeded.
CreatedNow ==
    {calls[i].repo : i \in {j \in 1..Len(calls) :
                               calls[j].op = "create" /\ calls[j].out = "ok"}}

\* The run was confirmed and its for loop ran to the end.
Completed == pc = "exit" /\ response # NotAsked /\ idx > Len(repositories)

\* The tool is invoked again with the same arguments, nothing else changed.
Rerun ==
    /\ pc = "exit"
    /\ run < MaxRuns
    /\ run' = run + 1
    /\ pc' = "start"
    /\ repositories' = <<>>
    /\ idx' = 1
    /\ response' = NotAsked
    /\ exitCode' = NoExit
    /\ calls' = <<>>
    /\ state' = <<>>
    /\ origin0' = origin
    /\ hosted0' = hosted
    /\ prevCreated' = CreatedNow
    /\ prevCompleted' = Completed
    /\ UNCHANGED <<argv, fs, origin, hosted>>

\* ------------------------------------------------------- initial states

Kinds == {"none", "file", "dir"}

\* An entry exists only inside a directory; of the directories of the
\* universe only /A may also be a plain file.
WellFormed(f) ==
    /\ \A e \in Entries : f[e] # "none" => IsDir(f, Parent(e))
    /\ \A p \in Universe : f[p] = "file" => p = <<"A">>

\* The strings given as the target: "/", "/A", "/A/", "/B", "/B/A".
Targets == {t \in [segs : {Root} \cup Universe, slash : BOOLEAN] :
               /\ t.segs = Root => t.slash
               /\ t.slash => t.segs \in {Root, <<"A">>}}

Argvs == {<<>>} \cup {<<t>> : t \in Targets}
            \cup {<<t, t>> : t \in {[segs |-> <<"A">>, slash |-> FALSE]}}

Init ==
    /\ argv \in Argvs
    /\ fs \in {f \in [Entries -> Kinds] : WellFormed(f)}
    /\ origin \in [Universe -> {Unset, Blank} \cup {Configured(OldUrl(p)) : p \in Universe}]
    /\ \A p \in Universe :
          /\ ~is_git_repo(fs, p) => origin[p] = Unset
          /\ origin[p] = Blank => p = <<"A">>
          /\ origin[p].set /\ origin[p] # Blank => origin[p] = Configured(OldUrl(p))
    /\ hosted \in SUBSET {PrefixedName("A"), PrefixedName("B")}
    /\ pc = "start"
    /\ repositories = <<>>
    /\ idx = 1
    /\ response = NotAsked
    /\ exitCode = NoExit
    /\ calls = <<>>
    /\ state = <<>>
    /\ run = 1
    /\ origin0 = origin
    /\ hosted0 = hosted
    /\ prevCreated = {}
    /\ prevCompleted = FALSE

Next == Discover \/ List \/ Confirm \/ Process \/ Finish \/ Rerun

Spec == Init /\ [][Next]_vars

\* ------------------------------------------------- reading the call log

MutatingOps == {"create", "set-url", "push"}

\* The positions in calls of the commands process_repository ran for p.
Issued(p, op) ==
    {j \in 1..Len(calls) : calls[j].repo = p /\ calls[j].op = op /\ calls[j].out # "printed"}

IssuedWith(p, op, out) == {j \in Issued(p, op) : calls[j].out = out}

\* No creation, set-url or push was issued for p in this run.
NoMutation(p) == \A op \in MutatingOps : Issued(p, op) = {}

\* process_repository has been called for the i-th discovered repository.
Processed(i) == pc \in {"loop", "exit"} /\ response # NotAsked /\ i < idx

\* The run went on after the i-th repository: the loop is past it, and once
\* the process has exited every later repository has been processed too.
Proceeded(i) ==
    /\ idx > i
    /\ pc = "exit" =>
          \A j \in i..Len(repositories) : state[repositories[j]] # "DISCOVERED"

Yes == <<"y", "e", "s">>

\* ------------------------------------------------------------------- C1

\* C1, as stated: once the prompt is answered with anything other than the
\* exact token 'yes', the process has exited with status 0 and the run has
\* created no hosted repository, repointed no remote and attempted no push.
C1_ExactYes ==
    (response # NotAsked /\ response # Yes) =>
        /\ pc = "exit" /\ exitCode = 0
        /\ \A j \in 1..Len(calls) : calls[j].op \notin MutatingOps
        /\ origin = origin0 /\ hosted = hosted0

\* C1, amended: once the prompt is answered with anything other than 'yes'
\* in some letter case (the answer is lower-cased before it is compared), the
\* process has exited with status 0 and the run has created no hosted
\* repository, repointed no remote and attempted no push.
C1_AnyCaseYes ==
    (response # NotAsked /\ Lower(response) # Yes) =>
        /\ pc = "exit" /\ exitCode = 0
        /\ \A j \in 1..Len(calls) : calls[j].op \notin MutatingOps
        /\ origin = origin0 /\ hosted = hosted0

\* Two repositories with a remote and no hosted name were listed and the
\* answer was "no".
C1_Witness ==
    /\ pc = "exit" /\ response = <<"n", "o">>
    /\ Len(repositories) = 2
    /\ \A i \in 1..2 : origin[repositories[i]] = Configured(OldUrl(repositories[i]))
    /\ hosted = {}

\* ------------------------------------------------------------------- C2

\* The remote inspection of p yields absence: origin is unset, its URL is
\* blank, or the get-url command failed.
RemoteAbsent(p) ==
    \/ ~origin0[p].set
    \/ Strip(origin0[p].url) = <<>>
    \/ IssuedWith(p, "get-url", "fail") # {}

\* C2: a processed repository whose remote inspection yields absence gets no
\* existence check, no creation, no set-url and no push, and ends SKIPPED.
C2_NoRemoteSkipped ==
    \A i \in 1..Len(repositories) :
        LET p == repositories[i]
        IN  (Processed(i) /\ RemoteAbsent(p)) =>
                /\ Issued(p, "view") = {}
                /\ NoMutation(p)
                /\ origin[p] = origin0[p]
                /\ state[p] = "SKIPPED"

\* The three kinds of absence have each been processed: a blank URL, an
\* unset origin and a failed lookup of a configured origin.
C2_Witness ==
    /\ pc = "exit"
    /\ \E i \in 1..Len(repositories) :
          Processed(i) /\ origin0[repositories[i]] = Blank
    /\ \E i \in 1..Len(repositories) :
          Processed(i) /\ origin0[repositories[i]] = Unset
    /\ \E i \in 1..Len(repositories) :
          LET p == repositories[i]
          IN  /\ Processed(i) /\ origin0[p] = Configured(OldUrl(p))
              /\ IssuedWith(p, "get-url", "fail") # {}

\* ------------------------------------------------------------------- C3

\* C3: every push in the log comes after a successful set-url for the same
\* repository, and a repository whose set-url failed has no push.
C3_PushAfterSetUrl ==
    /\ \A j \in 1..Len(calls) :
          calls[j].op = "push" =>
              \E k \in 1..(j - 1) :
                  /\ calls[k].op = "set-url" /\ calls[k].out = "ok"
                  /\ calls[k].repo = calls[j].repo
    /\ \A i \in 1..Len(repositories) :
          IssuedWith(repositories[i], "set-url", "fail") # {} =>
              Issued(repositories[i], "push") = {}

\* A set-url has failed for one repository and a push was issued for another.
C3_Witness ==
    /\ \E i \in 1..Len(repositories) :
          IssuedWith(repositories[i], "set-url", "fail") # {}
    /\ \E i \in 1..Len(repositories) : Issued(repositories[i], "push") # {}

\* ------------------------------------------------------------------- C4

\* q is p or lies above p.
IsPrefix(q, p) == Len(q) <= Len(p) /\ SubSeq(p, 1, Len(q)) = q

\* The directories os.walk can reach from top.
Tree(top) == {p \in {Root} \cup Universe : IsPrefix(top, p) /\ IsDir(fs, p)}

\* main has a target that is a directory, so discovery walked it.
Walked == pc # "start" /\ Len(argv) = 1 /\ IsDir(fs, PathOf(argv[1]))

InResult(p) == \E i \in 1..Len(repositories) : repositories[i] = p

\* C4, as stated, for filesystems whose .git entries are all directories: a
\* directory of the walked tree is in the discovery result if and only if it
\* holds the marker and no directory above it in the walked tree holds one.
C4_NestedNotReturned ==
    (Walked /\ \A d \in Universe : Kind(fs, Append(d, GIT)) # "file") =>
        \A p \in Tree(PathOf(argv[1])) :
            InResult(p) <=>
                /\ is_git_repo(fs, p)
                /\ \A q \in Tree(PathOf(argv[1])) :
                      (IsPrefix(q, p) /\ q # p) => ~is_git_repo(fs, q)

\* ------------------------------------------------------------------- C5

\* This run follows a run that was confirmed and ran to its end.
SecondRun == run >= 2 /\ prevCompleted

\* C5, as stated: at the end of a confirmed second run every discovered
\* repository has taken the 'already exists' path and no creation was issued.
C5_AllSkipOnSecondRun ==
    (SecondRun /\ Completed) =>
        \A i \in 1..Len(repositories) :
            LET p == repositories[i]
            IN  /\ state[p] = "SKIPPED"
                /\ IssuedWith(p, "view", "ok") # {}
                /\ Issued(p, "create") = {}

\* C5, amended: on the second run a repository whose hosted repository the
\* first run created gets no second hosted repository, no set-url and no
\* push and keeps its remote, and it takes the 'already exists' path, with
\* no creation call, whenever its remote lookup and its existence lookup
\* succeed.
C5_CreatedOnceOnly ==
    SecondRun =>
        \A i \in 1..Len(repositories) :
            LET p == repositories[i]
            IN  (Processed(i) /\ p \in prevCreated) =>
                    /\ IssuedWith(p, "create", "ok") = {}
                    /\ Issued(p, "set-url") = {} /\ Issued(p, "push") = {}
                    /\ origin[p] = origin0[p]
                    /\ (IssuedWith(p, "get-url", "ok") # {} /\ IssuedWith(p, "view", "ok") # {})
                          => (state[p] = "SKIPPED" /\ Issued(p, "create") = {})

\* A second run has ended in which a repository the first run created and
\* repointed was skipped as already existing.
C5_Witness ==
    /\ SecondRun /\ Completed
    /\ \E i \in 1..Len(repositories) :
          LET p == repositories[i]
          IN  /\ p \in prevCreated
              /\ origin[p] = Configured(HostedUrl(PrefixedName(Name(p))))
              /\ state[p] = "SKIPPED"
              /\ IssuedWith(p, "view", "ok") # {}

\* ------------------------------------------------------------------- C6

\* C6: a processed repository whose existence check succeeded gets no
\* creation, no set-url and no push, keeps its remote, is SKIPPED, and the
\* run goes on to the next repository.
C6_ExistingSkipped ==
    \A i \in 1..Len(repositories) :
        LET p == repositories[i]
        IN  (Processed(i) /\ IssuedWith(p, "view", "ok") # {}) =>
                /\ NoMutation(p)
                /\ origin[p] = origin0[p]
                /\ state[p] = "SKIPPED"
                /\ Proceeded(i)

\* The first repository was skipped as existing and the second one migrated.
C6_Witness ==
    /\ pc = "exit" /\ Len(repositories) >= 2
    /\ IssuedWith(repositories[1], "view", "ok") # {}
    /\ state[repositories[2]] = "DONE"

\* ------------------------------------------------------------------- C7

\* C7: a processed repository whose creation call failed keeps its remote,
\* gets no set-url and no push, is ABORTED, and the run goes on.
C7_CreationFailedAborted ==
    \A i \in 1..Len(repositories) :
        LET p == repositories[i]
        IN  (Processed(i) /\ IssuedWith(p, "create", "fail") # {}) =>
                /\ origin[p] = origin0[p]
                /\ Issued(p, "set-url") = {} /\ Issued(p, "push") = {}
                /\ state[p] = "ABORTED"
                /\ Proceeded(i)

\* The creation for the first repository failed although its name was free,
\* and the second repository was migrated.
C7_Witness ==
    /\ pc = "exit" /\ Len(repositories) >= 2
    /\ IssuedWith(repositories[1], "create", "fail") # {}
    /\ PrefixedName(Name(repositories[1])) \notin hosted
    /\ state[repositories[2]] = "DONE"

\* ------------------------------------------------------------------- C8

Terminal == {"SKIPPED", "ABORTED", "FAILED", "DONE", "NOT_A_REPO"}

Accepted == pc \in {"loop", "exit"} /\ response # NotAsked /\ Lower(response) = Yes

\* The repositories process_repository was called for, in call order.
RECURSIVE ProcessingOrder(_)
ProcessingOrder(log) ==
    IF log = <<>> THEN <<>>
    ELSE (IF Head(log).op = "get-url" /\ Head(log).out # "printed"
          THEN <<Head(log).repo>> ELSE <<>>) \o ProcessingOrder(Tail(log))

\* C8: once the confirmation is accepted, the repositories processed so far
\* are the first idx - 1 discovered ones, each once and in discovery order,
\* each in a terminal state whatever the earlier outcomes; the loop can
\* always take its next step; and the process exits only with all processed.
C8_EachOnceInOrder ==
    Accepted =>
        /\ idx \in 1..(Len(repositories) + 1)
        /\ ProcessingOrder(calls) = SubSeq(repositories, 1, idx - 1)
        /\ \A i \in 1..Len(repositories) :
              IF i < idx THEN state[repositories[i]] \in Terminal
              ELSE state[repositories[i]] = "DISCOVERED"
        /\ pc = "loop" => ENABLED (Process \/ Finish)
        /\ pc = "exit" => idx = Len(repositories) + 1

\* A run of three repositories has ended after the first one failed at
\* set-url and the second one at creation.
C8_Witness ==
    /\ Accepted /\ pc = "exit" /\ Len(repositories) = 3
    /\ IssuedWith(repositories[1], "set-url", "fail") # {}
    /\ state[repositories[2]] = "ABORTED"
    /\ state[repositories[3]] \in Terminal

\* ------------------------------------------------------------------- C9

\* C9: the exit status is 1 exactly when the argument count is wrong or the
\* discovery is empty, and then nothing was listed, asked or changed; in
\* every other case it is 0.
C9_ExitCodes ==
    pc = "exit" =>
        /\ exitCode \in {0, 1}
        /\ exitCode = 1 <=> (Len(argv) + 1 # 2 \/ repositories = <<>>)
        /\ exitCode = 1 =>
              (calls = <<>> /\ response = NotAsked /\ origin = origin0 /\ hosted = hosted0)

\* The target is a directory with a subdirectory but no repository under it:
\* the process has exited with status 1.
C9_Witness ==
    /\ pc = "exit" /\ exitCode = 1 /\ Len(argv) = 1
    /\ IsDir(fs, PathOf(argv[1]))
    /\ \E d \in Universe : IsPrefix(PathOf(argv[1]), d) /\ d # PathOf(argv[1]) /\ IsDir(fs, d)

\* ------------------------------------------------------------------ C10

\* C10: a processed repository whose set-url succeeded and whose push failed
\* has its remote at the URL set-url was given, not at the URL it had when
\* the run started, is FAILED, and the run goes on.
C10_NoRollback ==
    \A i \in 1..Len(repositories) :
        LET p == repositories[i]
        IN  (Processed(i) /\ IssuedWith(p, "push", "fail") # {}) =>
                /\ \E k \in IssuedWith(p, "set-url", "ok") :
                      origin[p] = Configured(calls[k].arg)
                /\ origin[p] # origin0[p]
                /\ state[p] = "FAILED"
                /\ Proceeded(i)

\* The push of the first repository failed and the second one was migrated.
C10_Witness ==
    /\ pc = "exit" /\ Len(repositories) >= 2
    /\ IssuedWith(repositories[1], "push", "fail") # {}
    /\ state[repositories[2]] = "DONE"

\* ------------------------------------------------------------------ C11

\* C11, as stated: what happens to a repository does not depend on the
\* repositories processed before it. A repository processed first finds its
\* target name on the host only if the name was there when the run started,
\* so the same must hold wherever in the list the repository stands.
C11_SelfContained ==
    \A i \in 1..Len(repositories) :
        LET p == repositories[i]
        IN  (Processed(i) /\ IssuedWith(p, "view", "ok") # {}) =>
                PrefixedName(Name(p)) \in hosted0

\* ------------------------------------------------------------------ C12

\* The commands process_repository ran for p, in order, each as <<op, out>>.
RECURSIVE Steps(_, _)
Steps(p, log) ==
    IF log = <<>> THEN <<>>
    ELSE (IF Head(log).repo = p /\ Head(log).out # "printed"
          THEN <<<<Head(log).op, Head(log).out>>>> ELSE <<>>) \o Steps(p, Tail(log))

\* The runs of commands the state machine allows, with the state each ends in.
AllowedPaths ==
    { [steps |-> <<<<"get-url", "fail">>>>, state |-> "SKIPPED"],
      [steps |-> <<<<"get-url", "ok">>>>, state |-> "SKIPPED"],
      [steps |-> <<<<"get-url", "ok">>, <<"view", "ok">>>>, state |-> "SKIPPED"],
      [steps |-> <<<<"get-url", "ok">>, <<"view", "fail">>, <<"create", "fail">>>>,
       state |-> "ABORTED"],
      [steps |-> <<<<"get-url", "ok">>, <<"view", "fail">>, <<"create", "ok">>>>,
       state |-> "ABORTED"],
      [steps |-> <<<<"get-url", "ok">>, <<"view", "fail">>, <<"create", "ok">>,
                   <<"set-url", "fail">>>>, state |-> "FAILED"],
      [steps |-> <<<<"get-url", "ok">>, <<"view", "fail">>, <<"create", "ok">>,
                   <<"set-url", "ok">>, <<"push", "fail">>>>, state |-> "FAILED"],
      [steps |-> <<<<"get-url", "ok">>, <<"view", "fail">>, <<"create", "ok">>,
                   <<"set-url", "ok">>, <<"push", "ok">>>>, state |-> "DONE"] }

\* C12: the commands run for a processed repository and the state it ends in
\* form one of the paths of the state machine; and when the remote lookup
\* succeeds, the name is not found, and creation, set-url and push succeed,
\* creation was given migration25-<name>, set-url the URL of that hosted
\* repository, the remote now holds that URL, and the state is DONE.
C12_StateMachine ==
    \A i \in 1..Len(repositories) :
        LET p == repositories[i]
            new_name == <<"migration25-", Name(p)>>
            url == <<"https://github.com/u/", "migration25-", Name(p)>>
        IN  Processed(i) =>
                /\ [steps |-> Steps(p, calls), state |-> state[p]] \in AllowedPaths
                /\ (/\ IssuedWith(p, "create", "ok") # {}
                    /\ IssuedWith(p, "set-url", "ok") # {}
                    /\ IssuedWith(p, "push", "ok") # {}) =>
                      /\ \A j \in Issued(p, "create") : calls[j].arg = new_name
                      /\ \A j \in Issued(p, "set-url") : calls[j].arg = url
                      /\ origin[p] = Configured(url)
                      /\ state[p] = "DONE"

\* /A, whose remote is the old URL and whose name is not hosted, has been
\* created, repointed and pushed.
C12_Witness ==
    /\ pc = "exit" /\ run = 1
    /\ InResult(<<"A">>)
    /\ origin0[<<"A">>] = Configured(OldUrl(<<"A">>))
    /\ PrefixedName("A") \notin hosted0
    /\ state[<<"A">>] = "DONE"
    /\ Steps(<<"A">>, calls) =
          <<<<"get-url", "ok">>, <<"view", "fail">>, <<"create", "ok">>,
            <<"set-url", "ok">>, <<"push", "ok">>>>

\* ------------------------------------------------------------------ C13

\* C13, as stated, for a target string that ends with a separator: when the
\* target does not exist, the discovery result is what walking the target's
\* parent directory finds.
C13_ParentSearched ==
    (pc # "start" /\ Len(argv) = 1 /\ argv[1].slash /\ ~Exists(fs, PathOf(argv[1]))) =>
        repositories = Walk(fs, Parent(PathOf(argv[1])))

\* ------------------------------------------------------------------ C14

\* C14: in one run each discovered repository gets at most one creation, one
\* set-url and one push, and every creation is given migration25-<name>,
\* <name> being the final segment of the repository's path.
C14_NoRetryNoOtherName ==
    /\ \A i \in 1..Len(repositories) :
          \A op \in MutatingOps : Cardinality(Issued(repositories[i], op)) <= 1
    /\ \A j \in 1..Len(calls) :
          calls[j].op = "create" =>
              /\ InResult(calls[j].repo)
              /\ calls[j].arg = <<"migration25-", calls[j].repo[Len(calls[j].repo)]>>

\* A creation failed, a set-url failed and a push failed in one run.
C14_Witness ==
    /\ pc = "exit"
    /\ \E i \in 1..Len(repositories) : IssuedWith(repositories[i], "create", "fail") # {}
    /\ \E i \in 1..Len(repositories) : IssuedWith(repositories[i], "set-url", "fail") # {}
    /\ \E i \in 1..Len(repositories) : IssuedWith(repositories[i], "push", "fail") # {}

\* ------------------------------------------------------------------ C15

\* C15: a processed repository whose existence lookup failed gets a creation
\* call; and when its target name was on the host all along, that creation
\* fails, no set-url or push follows, the remote is unchanged and the
\* repository is ABORTED.
C15_LookupFailureMeansAbsent ==
    \A i \in 1..Len(repositories) :
        LET p == repositories[i]
        IN  (Processed(i) /\ IssuedWith(p, "view", "fail") # {}) =>
                /\ Issued(p, "create") # {}
                /\ <<"migration25-", Name(p)>> \in hosted0 =>
                      /\ IssuedWith(p, "create", "fail") # {}
                      /\ Issued(p, "set-url") = {} /\ Issued(p, "push") = {}
                      /\ origin[p] = origin0[p]
                      /\ state[p] = "ABORTED"

\* The lookup failed for a name that was on the host when the run started.
C15_Witness ==
    \E i \in 1..Len(repositories) :
        LET p == repositories[i]
        IN  /\ Processed(i)
            /\ PrefixedName(Name(p)) \in hosted0
            /\ IssuedWith(p, "view", "fail") # {}
            /\ state[p] = "ABORTED"

\* ------------------------------------------------------------------ C16

\* C16: no path occurs twice in the discovery result.
C16_NoDuplicates ==
    \A i, j \in 1..Len(repositories) :
        repositories[i] = repositories[j] => i = j

\* The discovery has returned three repositories, one nested in another.
C16_Witness ==
    /\ Len(repositories) = 3
    /\ InResult(<<"B">>) /\ InResult(<<"B", "A">>)

\* ------------------------------------------------------------------ C17

ReadOnlyOps == {"get-url", "view"}

\* C17: until the prompt has been answered, the log holds only get-url and
\* view queries and neither a remote nor the host has changed; and a
\* creation, set-url or push is in the log only after an answer that is
\* 'yes' in some letter case.
C17_NothingBeforeConfirmation ==
    /\ pc \in {"start", "list", "prompt"} =>
          /\ \A j \in 1..Len(calls) : calls[j].op \in ReadOnlyOps
          /\ origin = origin0 /\ hosted = hosted0
    /\ (\E j \in 1..Len(calls) : calls[j].op \in MutatingOps) =>
          (response # NotAsked /\ Lower(response) = Yes)

\* Two repositories have been listed and the prompt is waiting.
C17_Witness ==
    /\ pc = "prompt" /\ Len(repositories) = 2
    /\ Len(calls) = 4
    /\ \A i \in 1..2 : origin[repositories[i]].set

\* ------------------------------------------------------------------ C18

\* C18: a repository with a push has its origin at the URL of the hosted
\* repository an earlier successful creation of this run made for it, not at
\* its old URL; and every set-url is given the URL of such a creation.
C18_PushOnlyToCreated ==
    /\ \A j \in 1..Len(calls) :
          calls[j].op = "push" =>
              LET p == calls[j].repo
              IN  /\ \E k \in 1..(j - 1) :
                        /\ calls[k].op = "create" /\ calls[k].out = "ok"
                        /\ calls[k].repo = p
                        /\ origin[p] = Configured(<<"https://github.com/u/">> \o calls[k].arg)
                  /\ origin[p] # Configured(OldUrl(p))
                  /\ origin[p] # origin0[p]
    /\ \A j \in 1..Len(calls) :
          calls[j].op = "set-url" =>
              \E k \in 1..(j - 1) :
                  /\ calls[k].op = "create" /\ calls[k].out = "ok"
                  /\ calls[k].repo = calls[j].repo
                  /\ calls[j].arg = <<"https://github.com/u/">> \o calls[k].arg

\* A push has failed for one repository and succeeded for another.
C18_Witness ==
    /\ \E i \in 1..Len(repositories) : IssuedWith(repositories[i], "push", "fail") # {}
    /\ \E i \in 1..Len(repositories) : IssuedWith(repositories[i], "push", "ok") # {}

====
